---- MODULE Spec2Model ----
(***************************************************************************)
(* Model of log_analyzer.py: PytestLogParser (summary aggregation, passed  *)
(* set, failure-block extraction), StageFailureDetector (pattern loading   *)
(* and ordered check) and MultiJobAnalyzer (construction and run_all).     *)
(*                                                                         *)
(* Text is modelled at two levels.  A log is a sequence of lines; a line   *)
(* is a record [k, toks, num]: its shape k, its whitespace- or             *)
(* punctuation-delimited tokens toks, and the line number num it carries   *)
(* (0 when it carries none).  The regular expressions of the source are    *)
(* modelled by what they match on these lines and tokens.                  *)
(***************************************************************************)
EXTENDS Naturals, Sequences, FiniteSets, TLC

VARIABLES
    pc,             \* position of main(): "main", "run_all", "done", "crashed"
    raised,         \* the exception that left the constructor, "" when none
    config_file,    \* content of the target configuration file
    patterns_file,  \* content of the error-patterns file
    targets,        \* MultiJobAnalyzer.targets
    patterns,       \* StageFailureDetector.patterns
    idx,            \* run_all's loop counter i (1-based), 0 before run_all
    out,            \* what run_all printed, one entry per target reached
    chk,            \* the last call of StageFailureDetector.check and its outcome
    log,            \* PytestLogParser.log
    results,        \* PytestLogParser.results
    calls,          \* number of parse() calls made on the parser
    first           \* the value the parser's first parse() call returned

vars == <<pc, raised, config_file, patterns_file, targets, patterns, idx, out,
          chk, log, results, calls, first>>

(***************************************************************************)
(* Bounds of the model.                                                    *)
(***************************************************************************)
MaxLines == 4       \* longest log drawn line by line from GenLines
MaxBody == 3        \* longest body of the single-section logs
MaxCalls == 2       \* parse() calls on one parser object
MaxEntries == 2     \* entries in the error-patterns file
MaxTargets == 3     \* entries in the target configuration
MaxText == 2        \* lines of the logs handed to check on its own

BoundedSeq(S, n) == UNION {[1..m -> S] : m \in 0..n}

(***************************************************************************)
(* Tokens.                                                                 *)
(***************************************************************************)
\* int(): the digit strings the logs use, and the integers they denote
ToInt(s) ==
    CASE s = "0" -> 0 [] s = "1" -> 1 [] s = "2" -> 2 [] s = "3" -> 3
      [] s = "42" -> 42 [] s = "50" -> 50 [] s = "101" -> 101

\* \d+
IsDigits(s) == s \in {"0", "1", "2", "3", "42", "50", "101"}

\* "tc" under re.IGNORECASE
IsTc(s) == s \in {"tc", "TC", "Tc", "tC"}

\* [-_]
IsSep(s) == s \in {"-", "_"}

\* str.upper() on the tokens a test-id match can span
Upper(s) == IF IsTc(s) THEN "TC" ELSE s

\* str.lower() on the words a stage pattern can meet
Lower(s) ==
    CASE s = "OOM" -> "oom" [] s = "Timeout" -> "timeout" [] OTHER -> s

RECURSIVE Join(_)
\* the text a token sequence spells
Join(t) == IF t = <<>> THEN "" ELSE Head(t) \o Join(Tail(t))

(***************************************************************************)
(* Lines.                                                                  *)
(***************************************************************************)
Line(k, toks, num) == [k |-> k, toks |-> toks, num |-> num]

\* _____ <name> _____
HeaderLine(name) == Line("header", name, 0)
\* <path>.py::<name> PASSED; toks is the unit the regex captures
PassedLine(path, name) == Line("passed", <<path, "::">> \o name, 0)
\* ========== <text> ==========
BannerLine(text) == Line("banner", text, 0)
\* a line holding an applitools URL
UrlLine(url) == Line("url", <<url>>, 0)
\* <file>.py:<num>: <text>
ErrorLine(file, num, text) == Line("error", <<file, text>>, num)
\* <num> > <code>
CursorLine(num, code) == Line("cursor", <<code>>, num)
\* any other line, holding one word
TextLine(word) == Line("text", <<word>>, 0)

(***************************************************************************)
(* The texts the logs are built from.                                      *)
(***************************************************************************)
NLogin == <<"test_", "login">>
NTcDash == <<"test_", "checkout", "_", "tc", "-", "101">>
NTcPlain == <<"test_", "checkout", "_", "tc", "101">>

HLogin == HeaderLine(NLogin)
HTc == HeaderLine(NTcDash)
PLogin == PassedLine("tests/test_login.py", NLogin)
PTcDash == PassedLine("tests/test_checkout.py", NTcDash)
PTcPlain == PassedLine("tests/test_checkout.py", NTcPlain)
Bn1 == BannerLine(<<"2", "passed", "1", "failed">>)
Bn2 == BannerLine(<<"3", "passed", "1", "error", "2", "skipped">>)
BnTitle == BannerLine(<<"FAILURES">>)
Url == UrlLine("https://eyes.applitools.com/app/batches/1")
Err42 == ErrorLine("login.py", 42, "AssertionError")
Err50 == ErrorLine("cart.py", 50, "KeyError: 'sku'")
Cur42 == CursorLine(42, "assert resp.status == 200")
Cur50 == CursorLine(50, "return cart[sku]")

GenLines == {HLogin, HTc, PLogin, PTcDash, PTcPlain, Bn1, Bn2, Url, Err42}
BodyLines == {Url, Err42, Err50, Cur42, Cur50, TextLine("oom")}

\* a failure section with a body of up to MaxBody lines, then its terminator
SectionLogs ==
    {<<h>> \o b \o <<t>> :
        h \in {HLogin, HTc}, b \in BoundedSeq(BodyLines, MaxBody),
        t \in {Bn1, BnTitle, HLogin}}

Logs == BoundedSeq(GenLines, MaxLines) \cup SectionLogs

(***************************************************************************)
(* PytestLogParser                                                         *)
(***************************************************************************)
Min(S) == CHOOSE x \in S : \A y \in S : x <= y

\* __init__: self.results
NewResults ==
    [total |-> 0, passed |-> 0, failed |-> 0, errors |-> 0, skipped |-> 0,
     failures |-> <<>>]

RECURSIVE DigitsEnd(_, _)
\* \d+ from token i, greedy: the index of the last digit token of the run
DigitsEnd(t, i) ==
    IF i + 1 <= Len(t) /\ IsDigits(t[i + 1]) THEN DigitsEnd(t, i + 1) ELSE i

\* test_id_pattern tried at token i: the index its match ends at, 0 for no match
TestIdMatchEnd(t, i) ==
    IF ~IsTc(t[i]) THEN 0
    ELSE IF i + 2 <= Len(t) /\ IsSep(t[i + 1]) /\ IsDigits(t[i + 2])
         THEN DigitsEnd(t, i + 2)
    ELSE IF i + 1 <= Len(t) /\ IsDigits(t[i + 1]) THEN DigitsEnd(t, i + 1)
    ELSE 0

\* the identifier of a test name: the leftmost tc token upper-cased, else the name
TestIdOf(t) ==
    LET at == {i \in 1..Len(t) : TestIdMatchEnd(t, i) > 0}
    IN  IF at = {} THEN Join(t)
        ELSE LET i == Min(at)
                 j == TestIdMatchEnd(t, i)
             IN  Join([k \in 1..(j - i + 1) |-> Upper(t[i + k - 1])])

\* the categories of _parse_summary and the labels their patterns accept
CountKeys == {"failed", "passed", "errors", "skipped"}
CountLabels(key) ==
    CASE key = "failed" -> {"failed"}
      [] key = "passed" -> {"passed"}
      [] key = "errors" -> {"error", "errors"}
      [] key = "skipped" -> {"skipped"}

\* re.search(r"(\d+)\s+<label>", summary_text): <<n>> when found, <<>> when not
SearchCount(text, key) ==
    LET at == {i \in 1..(Len(text) - 1) :
                  IsDigits(text[i]) /\ text[i + 1] \in CountLabels(key)}
    IN  IF at = {} THEN <<>> ELSE <<ToInt(text[Min(at)])>>

\* a count that ignores what earlier banners gave
OverwriteCount(old, n) == n

\* self.results[key] += int(m.group(1))
AddCount(old, n) == old + n

\* summary_pattern.finditer: the captured text of every banner, in log order
SummaryTexts(l) ==
    LET b == SelectSeq(l, LAMBDA ln : ln.k = "banner")
    IN  [i \in 1..Len(b) |-> b[i].toks]

RECURSIVE SumBanners(_, _)
\* the loop over the banners
SumBanners(texts, counts) ==
    IF texts = <<>> THEN counts
    ELSE SumBanners(Tail(texts),
            [key \in CountKeys |->
                LET m == SearchCount(Head(texts), key)
                IN  IF m = <<>> THEN counts[key] ELSE AddCount(counts[key], m[1])])

\* _parse_summary
ParseSummary(l, r) ==
    LET c == SumBanners(SummaryTexts(l), [key \in CountKeys |-> 0])
    IN  [r EXCEPT !.passed = c["passed"], !.failed = c["failed"],
                  !.errors = c["errors"], !.skipped = c["skipped"],
                  !.total = c["passed"] + c["failed"] + c["errors"] + c["skipped"]]

\* _get_passed_test_ids
GetPassedTestIds(l) ==
    {TestIdOf(l[i].toks) : i \in {i \in 1..Len(l) : l[i].k = "passed"}}

\* failure_block_pattern's header: _{5,}\s+(test_\S+)\s+_{5,}
IsHeader(ln) == ln.k = "header" /\ Len(ln.toks) >= 2 /\ ln.toks[1] = "test_"

\* ={10,}
HasEqualsRun(ln) == ln.k = "banner"

RECURSIVE FailureBlocks(_, _)
\* failure_block_pattern.finditer from line pos: a header, then lazily the lines up
\* to (not including) the next header or run of equals signs; a header that nothing
\* of the kind follows matches nothing
FailureBlocks(l, pos) ==
    LET hs == {i \in pos..Len(l) : IsHeader(l[i])}
    IN  IF hs = {} THEN <<>>
        ELSE LET i == Min(hs)
                 ts == {j \in (i + 1)..Len(l) : IsHeader(l[j]) \/ HasEqualsRun(l[j])}
             IN  IF ts = {} THEN <<>>
                 ELSE <<[test_name |-> l[i].toks,
                         content |-> SubSeq(l, i + 1, Min(ts) - 1)]>>
                      \o FailureBlocks(l, Min(ts))

\* the first error line outranks an applitools URL
FailureDetailErrorFirst(content) ==
    LET urls == {i \in 1..Len(content) : content[i].k = "url"}
        errs == {i \in 1..Len(content) : content[i].k = "error"}
    IN  IF errs # {}
        THEN LET e == content[Min(errs)]
                 curs == {i \in 1..Len(content) :
                             content[i].k = "cursor" /\ content[i].num = e.num}
             IN  IF curs # {} THEN content[Min(curs)].toks[1]
                 ELSE "Error: " \o e.toks[2]
        ELSE IF urls # {} THEN content[Min(urls)].toks[1]
        ELSE "Could not determine failure."

\* failure_detail of one section body
FailureDetail(content) ==
    LET urls == {i \in 1..Len(content) : content[i].k = "url"}
        errs == {i \in 1..Len(content) : content[i].k = "error"}
    IN  IF urls # {} THEN content[Min(urls)].toks[1]
        ELSE IF errs # {}
        THEN LET e == content[Min(errs)]
                 curs == {i \in 1..Len(content) :
                             content[i].k = "cursor" /\ content[i].num = e.num}
             IN  IF curs # {} THEN content[Min(curs)].toks[1]
                 ELSE "Error: " \o e.toks[2]
        ELSE "Could not determine failure."

\* a parser that drops no section
NeverSuppressed(test_id, passed_ids) == FALSE

\* if test_id in passed_ids: continue
Suppressed(test_id, passed_ids) == test_id \in passed_ids

RECURSIVE AppendFailures(_, _, _, _)
\* the loop over the failure sections
AppendFailures(blocks, passed_ids, seen_failures, failures) ==
    IF blocks = <<>> THEN failures
    ELSE LET test_id == TestIdOf(Head(blocks).test_name)
             failure_detail == FailureDetail(Head(blocks).content)
         IN  IF Suppressed(test_id, passed_ids)
                \/ <<test_id, failure_detail>> \in seen_failures
             THEN AppendFailures(Tail(blocks), passed_ids, seen_failures, failures)
             ELSE AppendFailures(Tail(blocks), passed_ids,
                    seen_failures \cup {<<test_id, failure_detail>>},
                    Append(failures,
                           [test_id |-> test_id, code_line |-> failure_detail]))

\* _parse_failure_details: appends to the failures the parser already holds
ParseFailureDetails(l, r) ==
    [r EXCEPT !.failures =
        AppendFailures(FailureBlocks(l, 1), GetPassedTestIds(l), {}, r.failures)]

\* parse
ParseResult(l, r) == ParseFailureDetails(l, ParseSummary(l, r))

(***************************************************************************)
(* The parser as an object: constructed on a log, then parse() called on   *)
(* it.  parse() has no guard of its own; the model stops at MaxCalls.      *)
(***************************************************************************)
NoFile == [state |-> "missing", entries |-> <<>>]
NoCheck == [called |-> FALSE, log |-> <<>>, kind |-> "none",
            description |-> "", matched_line |-> ""]

\* PytestLogParser(l)
InitParser ==
    /\ log \in Logs
    /\ results = NewResults
    /\ calls = 0
    /\ first = NewResults
    /\ pc = "parser"
    /\ raised = ""
    /\ config_file = NoFile
    /\ patterns_file = NoFile
    /\ targets = <<>>
    /\ patterns = <<>>
    /\ idx = 0
    /\ out = <<>>
    /\ chk = NoCheck

\* parser.parse()
Parse ==
    /\ pc = "parser"
    /\ calls < MaxCalls
    /\ results' = ParseResult(log, results)
    /\ calls' = calls + 1
    /\ first' = IF calls = 0 THEN results' ELSE first
    /\ UNCHANGED <<pc, raised, config_file, patterns_file, targets, patterns,
                   idx, out, chk, log>>

NextParser == Parse

SpecParser == InitParser /\ [][NextParser]_vars

(***************************************************************************)
(* Claims about the parser, checked under SpecParser.                      *)
(***************************************************************************)
\* the failure sections of the parser's log
Sections == FailureBlocks(log, 1)

\* the sections the passed set does not cancel
LiveSections ==
    {k \in 1..Len(Sections) :
        TestIdOf(Sections[k].test_name) \notin GetPassedTestIds(log)}

\* C5: no failure record carries a test_id of the passed set built from the whole
\* log, wherever the PASSED line stands relative to the failure section.
C5_NoPassedTestReported ==
    \A n \in 1..Len(results.failures) :
        results.failures[n].test_id \notin GetPassedTestIds(log)

\* C5 witness: parse has run on a log with two failure sections of one test, a
\* PASSED line of that test after the first and before the second, and
\* nothing was reported.
C5_Witness ==
    /\ calls >= 1
    /\ Len(Sections) = 2
    /\ \E i, p, j \in 1..Len(log) :
          /\ i < p /\ p < j
          /\ IsHeader(log[i]) /\ IsHeader(log[j]) /\ log[p].k = "passed"
          /\ TestIdOf(log[i].toks) = TestIdOf(log[p].toks)
          /\ TestIdOf(log[j].toks) = TestIdOf(log[p].toks)
    /\ results.failures = <<>>

\* what each banner of the model states, read off its text by hand
BannerStates(ln, key) ==
    CASE ln = Bn1 /\ key = "passed" -> 2
      [] ln = Bn1 /\ key = "failed" -> 1
      [] ln = Bn2 /\ key = "passed" -> 3
      [] ln = Bn2 /\ key = "errors" -> 1
      [] ln = Bn2 /\ key = "skipped" -> 2
      [] OTHER -> 0

RECURSIVE StatedSum(_, _)
\* the sum over all banners of a log of what they state for one category
StatedSum(l, key) ==
    IF l = <<>> THEN 0 ELSE BannerStates(Head(l), key) + StatedSum(Tail(l), key)

\* C8: after parse, each count is the sum over all banners of the integer the
\* banner gives for the category, total is the sum of the four counts, and with
\* no banner all five are zero.
C8_CountsAreBannerSums ==
    calls >= 1 =>
        /\ results.passed = StatedSum(log, "passed")
        /\ results.failed = StatedSum(log, "failed")
        /\ results.errors = StatedSum(log, "errors")
        /\ results.skipped = StatedSum(log, "skipped")
        /\ results.total = results.passed + results.failed
                           + results.errors + results.skipped
        /\ (\A i \in 1..Len(log) : log[i].k # "banner") =>
              /\ results.total = 0 /\ results.passed = 0 /\ results.failed = 0
              /\ results.errors = 0 /\ results.skipped = 0

\* C8 witness: parse has run on a log with two banners that both count passed
\* tests, and the counts are their sum.
C8_Witness ==
    /\ calls >= 1
    /\ \E i, j \in 1..Len(log) : i < j /\ log[i] = Bn1 /\ log[j] = Bn2
    /\ results.passed = 5
    /\ results.total = 9

\* the detail the priority rule gives a section body
RuleDetail(body, d) ==
    LET urls == {i \in 1..Len(body) : body[i].k = "url"}
        errs == {i \in 1..Len(body) : body[i].k = "error"}
    IN  IF urls # {} THEN \E i \in urls : d = body[i].toks[1]
        ELSE IF errs # {}
        THEN LET e == body[Min(errs)]
                 curs == {i \in 1..Len(body) :
                             body[i].k = "cursor" /\ body[i].num = e.num}
             IN  IF curs # {} THEN \E i \in curs : d = body[i].toks[1]
                 ELSE d = "Error: " \o e.toks[2]
        ELSE d = "Could not determine failure."

\* C10: every non-suppressed section is reported with the detail of the priority
\* rule (URL, else cursor line of the error line's number, else "Error: " and the
\* error text, else the fixed text), and nothing else is reported.
C10_DetailByPriority ==
    calls >= 1 =>
        /\ \A k \in LiveSections :
              \E n \in 1..Len(results.failures) :
                  /\ results.failures[n].test_id = TestIdOf(Sections[k].test_name)
                  /\ RuleDetail(Sections[k].content, results.failures[n].code_line)
        /\ \A n \in 1..Len(results.failures) :
              \E k \in LiveSections :
                  /\ results.failures[n].test_id = TestIdOf(Sections[k].test_name)
                  /\ RuleDetail(Sections[k].content, results.failures[n].code_line)

\* C10 witness: parse has run on a section whose body holds a URL, an error line
\* and the cursor line of its number, and the URL was reported.
C10_Witness ==
    /\ calls >= 1
    /\ Len(Sections) = 1
    /\ \E u, e, c \in 1..Len(Sections[1].content) :
          /\ Sections[1].content[u].k = "url"
          /\ Sections[1].content[e].k = "error"
          /\ Sections[1].content[c].k = "cursor"
          /\ Sections[1].content[c].num = Sections[1].content[e].num
    /\ Len(results.failures) = 1
    /\ results.failures[1].code_line = Url.toks[1]

\* the first section a record can come from
FirstSection(rec) ==
    Min({k \in 1..Len(Sections) :
            /\ TestIdOf(Sections[k].test_name) = rec.test_id
            /\ RuleDetail(Sections[k].content, rec.code_line)} \cup {Len(Sections) + 1})

\* C7: in every result of the parser no two failure records share (test_id,
\* detail), and the records stand in the order of their first sections.
C7_UniqueInFirstSeenOrder ==
    \A m, n \in 1..Len(results.failures) :
        m < n =>
            /\ <<results.failures[m].test_id, results.failures[m].code_line>>
                 # <<results.failures[n].test_id, results.failures[n].code_line>>
            /\ FirstSection(results.failures[m]) < FirstSection(results.failures[n])

\* C9: a second parse of the same log returns what the first returned.
C9_ParseRepeatable == calls >= 2 => results = first

\* a test name with the separator of its tc token dropped
StripTcSep(t) ==
    LET drop == {i \in 2..Len(t) : IsSep(t[i]) /\ IsTc(t[i - 1])}
    IN  SelectSeq([i \in 1..Len(t) |-> IF i \in drop THEN "" ELSE t[i]],
                  LAMBDA x : x # "")

\* a header and a PASSED line name the same test
SameTest(header, passed) ==
    StripTcSep(header.toks) = StripTcSep(SubSeq(passed.toks, 3, Len(passed.toks)))

\* C6: the identifier of a test's failure header equals the identifier of the
\* same test's PASSED line, so a test with a failure section and a PASSED line
\* yields no failure record.
C6_SameIdFromHeaderAndPassedLine ==
    calls >= 1 =>
        \A k \in 1..Len(Sections), p \in 1..Len(log) :
            (log[p].k = "passed"
             /\ SameTest(HeaderLine(Sections[k].test_name), log[p])) =>
                /\ TestIdOf(Sections[k].test_name) = TestIdOf(log[p].toks)
                /\ \A n \in 1..Len(results.failures) :
                      results.failures[n].test_id # TestIdOf(Sections[k].test_name)

(***************************************************************************)
(* StageFailureDetector                                                    *)
(***************************************************************************)
\* a key an entry does not have
Absent == "<absent>"

\* an entry of the error-patterns file; obj is FALSE for a JSON value that is no
\* object
Entry(obj, pattern, description) ==
    [obj |-> obj, pattern |-> pattern, description |-> description]

EOom == Entry(TRUE, "oom", "OOM")
ETimeout == Entry(TRUE, "Timeout", "Timeout")
ENoDescription == Entry(TRUE, "offline", Absent)
ENoPattern == Entry(TRUE, Absent, "Disk full")
ENotObject == Entry(FALSE, Absent, Absent)
EBadRegex == Entry(TRUE, "(", "Unbalanced")

PatternEntries == {EOom, ETimeout, ENoDescription, ENoPattern, ENotObject, EBadRegex}

\* what the path can hold: nothing, text that is no JSON, a JSON number or null, or
\* a JSON list
PatternFiles ==
    {[state |-> st, entries |-> <<>>] : st \in {"missing", "notjson", "scalar"}}
    \cup {[state |-> "list", entries |-> e] :
             e \in BoundedSeq(PatternEntries, MaxEntries)}

RECURSIVE FirstLoadError(_)
\* the loop p['compiled'] = re.compile(p['pattern'], re.IGNORECASE): the exception
\* of the first entry that raises one, "" when every entry compiles
FirstLoadError(entries) ==
    IF entries = <<>> THEN ""
    ELSE IF ~Head(entries).obj THEN "TypeError"
    ELSE IF Head(entries).pattern = Absent THEN "KeyError"
    ELSE IF Head(entries).pattern = "(" THEN "re.error"
    ELSE FirstLoadError(Tail(entries))

\* re.compile(pattern, re.IGNORECASE), kept under the key 'compiled'
Compiled(p) ==
    [pattern |-> p.pattern, description |-> p.description,
     compiled |-> Lower(p.pattern)]

\* _load_patterns: the list it returns, or the exception it lets through
LoadPatterns(file) ==
    IF file.state \in {"missing", "notjson"} THEN [exc |-> "", patterns |-> <<>>]
    ELSE IF file.state = "scalar" THEN [exc |-> "TypeError", patterns |-> <<>>]
    ELSE LET e == FirstLoadError(file.entries)
         IN  IF e = ""
             THEN [exc |-> "",
                   patterns |-> [i \in 1..Len(file.entries) |->
                                    Compiled(file.entries[i])]]
             ELSE IF e = "KeyError" THEN [exc |-> "", patterns |-> <<>>]
             ELSE [exc |-> e, patterns |-> <<>>]

\* p['compiled'].search(log_content): the lines where the pattern matches
MatchAt(p, l) ==
    {i \in 1..Len(l) : l[i].k = "text" /\ Lower(l[i].toks[1]) = p.compiled}

RECURSIVE Check(_, _)
\* check: kind is "none" for None, "found" for a result and "KeyError" when
\* p['description'] raises
Check(pats, l) ==
    IF pats = <<>>
    THEN [kind |-> "none", description |-> "", matched_line |-> ""]
    ELSE LET m == MatchAt(Head(pats), l)
         IN  IF m = {} THEN Check(Tail(pats), l)
             ELSE IF Head(pats).description = Absent
             THEN [kind |-> "KeyError", description |-> "",
                   matched_line |-> l[Min(m)].toks[1]]
             ELSE [kind |-> "found", description |-> Head(pats).description,
                   matched_line |-> l[Min(m)].toks[1]]

(***************************************************************************)
(* The detector as an object: constructed on a patterns file, then check   *)
(* called on logs.                                                         *)
(***************************************************************************)
DetectLogs ==
    BoundedSeq({TextLine("OOM"), TextLine("Timeout"), TextLine("offline"),
                TextLine("ok")}, MaxText)

InitDetector ==
    /\ pc = "detector_new"
    /\ patterns_file \in PatternFiles
    /\ patterns = <<>>
    /\ chk = NoCheck
    /\ raised = ""
    /\ config_file = NoFile
    /\ targets = <<>>
    /\ idx = 0
    /\ out = <<>>
    /\ log = <<>>
    /\ results = NewResults
    /\ calls = 0
    /\ first = NewResults

\* StageFailureDetector(path) returns
NewDetector ==
    /\ pc = "detector_new"
    /\ LoadPatterns(patterns_file).exc = ""
    /\ patterns' = LoadPatterns(patterns_file).patterns
    /\ pc' = "detector"
    /\ UNCHANGED <<raised, config_file, patterns_file, targets, idx, out, chk,
                   log, results, calls, first>>

\* StageFailureDetector(path) raises
NewDetectorRaises ==
    /\ pc = "detector_new"
    /\ LoadPatterns(patterns_file).exc # ""
    /\ raised' = LoadPatterns(patterns_file).exc
    /\ pc' = "crashed"
    /\ UNCHANGED <<config_file, patterns_file, targets, patterns, idx, out, chk,
                   log, results, calls, first>>

\* detector.check(l)
CheckLog(l) ==
    /\ pc = "detector"
    /\ chk' = [called |-> TRUE, log |-> l, kind |-> Check(patterns, l).kind,
               description |-> Check(patterns, l).description,
               matched_line |-> Check(patterns, l).matched_line]
    /\ UNCHANGED <<pc, raised, config_file, patterns_file, targets, patterns,
                   idx, out, log, results, calls, first>>

NextDetector ==
    \/ NewDetector
    \/ NewDetectorRaises
    \/ \E l \in DetectLogs : CheckLog(l)

SpecDetector == InitDetector /\ [][NextDetector]_vars

\* C2: check returns the description of the pattern of smallest index among the
\* patterns that match anywhere in the log, and no result when none matches or
\* the list is empty.
C2_FirstPatternInListOrder ==
    chk.called =>
        LET m == {i \in 1..Len(patterns) : MatchAt(patterns[i], chk.log) # {}}
        IN  IF m = {} THEN chk.kind = "none"
            ELSE /\ chk.kind = "found"
                 /\ chk.description = patterns[Min(m)].description

(***************************************************************************)
(* MultiJobAnalyzer and main()                                             *)
(*                                                                         *)
(* A target is modelled by its job_name and build_id; its stage_id only    *)
(* selects what the fetcher requests.  The fetcher is outside the model:   *)
(* get_log returns one of FetchLogs or raises.                             *)
(***************************************************************************)
Target(job_name, build_id) == [job_name |-> job_name, build_id |-> build_id]

TargetEntries == {Target("nightly", "17"), Target(Absent, "17"), Target("nightly", Absent)}

\* what the config path can hold: nothing, text that is no JSON, JSON that is no
\* list, or a JSON list of objects
ConfigFiles ==
    {[state |-> st, entries |-> <<>>] : st \in {"missing", "notjson", "notlist"}}
    \cup {[state |-> "list", entries |-> e] :
             e \in BoundedSeq(TargetEntries, MaxTargets)}

\* _load_config: the exception it raises, "" when it returns the list
LoadConfigError(file) ==
    CASE file.state = "missing" -> "FileNotFoundError"
      [] file.state = "notjson" -> "ValueError"
      [] file.state = "notlist" -> "ValueError"
      [] OTHER -> ""

\* what get_log can return
FetchLogs ==
    {<<HLogin, Err42, Cur42, Bn1>>,
     <<TextLine("Timeout"), TextLine("OOM")>>,
     <<TextLine("offline"), HLogin, Bn1>>}

\* if not job_name or not build_id
InvalidTarget(t) == t.job_name = Absent \/ t.build_id = Absent

\* one target's trace in the output: the log fetched for it (if any), whether
\* parse ran on it, the reports printed for it, and the stage failure reason
Reached(i, fetched, l, parsed, printed, description) ==
    [target |-> i, fetched |-> fetched, log |-> l, parsed |-> parsed,
     printed |-> printed, description |-> description]

\* an exception that leaves run_all
ExceptPropagates(i) == [pc |-> "crashed", idx |-> i]

\* except Exception as e: print(...); the loop goes on
ExceptInRunAll(i) == [pc |-> "run_all", idx |-> i + 1]

Init ==
    /\ pc = "main"
    /\ config_file \in ConfigFiles
    /\ patterns_file \in PatternFiles
    /\ raised = ""
    /\ targets = <<>>
    /\ patterns = <<>>
    /\ idx = 0
    /\ out = <<>>
    /\ chk = NoCheck
    /\ log = <<>>
    /\ results = NewResults
    /\ calls = 0
    /\ first = NewResults

\* MultiJobAnalyzer(...): _load_config raises
LoadConfigRaises ==
    /\ pc = "main"
    /\ LoadConfigError(config_file) # ""
    /\ raised' = LoadConfigError(config_file)
    /\ pc' = "crashed"
    /\ UNCHANGED <<config_file, patterns_file, targets, patterns, idx, out, chk,
                   log, results, calls, first>>

\* MultiJobAnalyzer(...): StageFailureDetector(...) raises
LoadPatternsRaises ==
    /\ pc = "main"
    /\ LoadConfigError(config_file) = ""
    /\ LoadPatterns(patterns_file).exc # ""
    /\ raised' = LoadPatterns(patterns_file).exc
    /\ pc' = "crashed"
    /\ UNCHANGED <<config_file, patterns_file, targets, patterns, idx, out, chk,
                   log, results, calls, first>>

\* MultiJobAnalyzer(...) returns and run_all is entered
NewAnalyzer ==
    /\ pc = "main"
    /\ LoadConfigError(config_file) = ""
    /\ LoadPatterns(patterns_file).exc = ""
    /\ targets' = config_file.entries
    /\ patterns' = LoadPatterns(patterns_file).patterns
    /\ pc' = "run_all"
    /\ idx' = 1
    /\ UNCHANGED <<raised, config_file, patterns_file, out, chk, log, results,
                   calls, first>>

\* one pass of the loop: the target lacks job_name or build_id
SkipInvalidTarget ==
    /\ pc = "run_all" /\ idx <= Len(targets)
    /\ InvalidTarget(targets[idx])
    /\ out' = Append(out, Reached(idx, FALSE, <<>>, FALSE, <<"skipped">>, ""))
    /\ idx' = idx + 1
    /\ UNCHANGED <<pc, raised, config_file, patterns_file, targets, patterns,
                   chk, log, results, calls, first>>

\* one pass of the loop: get_log raises
FetchRaises ==
    /\ pc = "run_all" /\ idx <= Len(targets)
    /\ ~InvalidTarget(targets[idx])
    /\ out' = Append(out, Reached(idx, FALSE, <<>>, FALSE, <<"error">>, ""))
    /\ pc' = ExceptInRunAll(idx).pc
    /\ idx' = ExceptInRunAll(idx).idx
    /\ UNCHANGED <<raised, config_file, patterns_file, targets, patterns, chk,
                   log, results, calls, first>>

\* one pass of the loop: check raises
CheckRaises(l) ==
    /\ pc = "run_all" /\ idx <= Len(targets)
    /\ ~InvalidTarget(targets[idx])
    /\ Check(patterns, l).kind = "KeyError"
    /\ out' = Append(out, Reached(idx, TRUE, l, FALSE, <<"error">>, ""))
    /\ pc' = ExceptInRunAll(idx).pc
    /\ idx' = ExceptInRunAll(idx).idx
    /\ UNCHANGED <<raised, config_file, patterns_file, targets, patterns, chk,
                   log, results, calls, first>>

\* one pass of the loop: check finds a stage failure
ReportStageFailure(l) ==
    /\ pc = "run_all" /\ idx <= Len(targets)
    /\ ~InvalidTarget(targets[idx])
    /\ Check(patterns, l).kind = "found"
    /\ out' = Append(out, Reached(idx, TRUE, l, FALSE, <<"stage">>,
                                  Check(patterns, l).description))
    /\ idx' = idx + 1
    /\ UNCHANGED <<pc, raised, config_file, patterns_file, targets, patterns,
                   chk, log, results, calls, first>>

\* one pass of the loop: no stage failure, a new parser parses and is reported
ReportPytest(l) ==
    /\ pc = "run_all" /\ idx <= Len(targets)
    /\ ~InvalidTarget(targets[idx])
    /\ Check(patterns, l).kind = "none"
    /\ log' = l
    /\ results' = ParseResult(l, NewResults)
    /\ calls' = 1
    /\ first' = results'
    /\ out' = Append(out, Reached(idx, TRUE, l, TRUE, <<"summary">>, ""))
    /\ idx' = idx + 1
    /\ UNCHANGED <<pc, raised, config_file, patterns_file, targets, patterns, chk>>

\* run_all returns: no targets, or the loop is over
Return ==
    /\ pc = "run_all" /\ idx > Len(targets)
    /\ pc' = "done"
    /\ UNCHANGED <<raised, config_file, patterns_file, targets, patterns, idx,
                   out, chk, log, results, calls, first>>

Next ==
    \/ LoadConfigRaises
    \/ LoadPatternsRaises
    \/ NewAnalyzer
    \/ SkipInvalidTarget
    \/ FetchRaises
    \/ \E l \in FetchLogs : CheckRaises(l)
    \/ \E l \in FetchLogs : ReportStageFailure(l)
    \/ \E l \in FetchLogs : ReportPytest(l)
    \/ Return

Spec == Init /\ [][Next]_vars

\* the loaded patterns that match a log
Matching(l) == {i \in 1..Len(patterns) : MatchAt(patterns[i], l) # {}}

\* C1: a target whose log matches a loaded pattern gets the stage failure report
\* and nothing else, and parse is not run on it; a target whose log matches none
\* gets the test-summary report and no stage failure report.
C1_StageFailurePreempts ==
    \A n \in 1..Len(out) :
        out[n].fetched =>
            IF Matching(out[n].log) # {}
            THEN out[n].printed = <<"stage">> /\ ~out[n].parsed
            ELSE out[n].printed = <<"summary">> /\ out[n].parsed

LoadFailure(file) ==
    \/ file.state \in {"missing", "notjson"}
    \/ /\ file.state = "list"
       /\ \E i \in 1..Len(file.entries) :
             \/ ~file.entries[i].obj
             \/ file.entries[i].pattern = Absent
             \/ file.entries[i].description = Absent
             \/ file.entries[i].pattern = "("

\* C4: a failure to load the patterns never leaves the constructor as an
\* exception; it leaves the detector with an empty list, and the run goes on.
C4_LoadFailureDisablesDetection ==
    (LoadConfigError(config_file) = "" /\ LoadFailure(patterns_file)) =>
        /\ pc # "crashed"
        /\ pc \in {"run_all", "done"} => patterns = <<>>

====
